---- MODULE Spec2Model ----
(***************************************************************************)
(* Model of reqbench.py: the ReqBench load generator.                      *)
(*                                                                         *)
(* run() builds one _request coroutine per loop iteration, then awaits     *)
(* them with asyncio.gather in chunks; each _request sends one HTTP        *)
(* request, classifies the result and folds it into the counters of the    *)
(* ReqBench object.  The event loop is cooperative: a task runs from one   *)
(* await to the next without interruption, so every action below is one    *)
(* such uninterrupted stretch of code.                                     *)
(***************************************************************************)
EXTENDS Integers, Sequences, FiniteSets, TLC

\* ---------------------------------------------------------------- bounds
MaxLimit == 3
MaxConcurrency == 2
MaxLines == 2
MaxDuration == 1
MaxOutcomes == 2

\* ------------------------------------------------------ program constants
\* asyncio.gather is awaited on slices of 1000 coroutines
ChunkSize == 1000
\* Python's None, the initial value of the min/max fields and of limit
None == -1

\* ------------------------------------------------------------ environment
\* What the target can answer.  A failure is an exception raised by
\* session.request or response.read: its class decides which except clause
\* catches it, hasMessage whether the object has a .message attribute
\* (ClientResponseError and HttpProcessingError do; ClientConnectorError,
\* asyncio.TimeoutError and Python's built-in exceptions do not).
Failures ==
    { [cls |-> "ClientResponseError",   hasMessage |-> TRUE],
      [cls |-> "HttpProcessingError",   hasMessage |-> TRUE],
      [cls |-> "ClientConnectionError", hasMessage |-> FALSE],
      [cls |-> "Exception",             hasMessage |-> FALSE] }

Durations == 0..MaxDuration

\* a target like examples/testserv.py's /random_status: any status class,
\* empty and non-empty bodies, and transport failures
AnyTarget ==
    [statuses |-> {100, 200, 404, 500}, lens |-> {0, 10}, fails |-> Failures,
     durs |-> Durations]

\* a target that answers every request with status 200 and a 10-byte body
Ok10Target ==
    [statuses |-> {200}, lens |-> {10}, fails |-> {}, durs |-> Durations]

\* a target that answers every request with status 500 after the same delay
Err500Target ==
    [statuses |-> {500}, lens |-> {}, fails |-> {}, durs |-> {1}]

\* the data file: one BOOLEAN per line, TRUE when every token of the line
\* splits into exactly two parts on ':'
Files == UNION { [1..n -> BOOLEAN] : n \in 0..MaxLines }

Sources ==
    { [present |-> FALSE, lines |-> << >>] }
        \cup { [present |-> TRUE, lines |-> f] : f \in Files }

Configs ==
    { [concurrency |-> n, limit |-> l, file |-> f, target |-> AnyTarget] :
        n \in 1..MaxConcurrency, l \in {None} \cup 0..MaxLimit, f \in Sources }
    \cup
    { [concurrency |-> 4, limit |-> 20, file |-> f, target |-> Ok10Target] :
        f \in Sources }
    \cup
    \* one coroutine more than a gather slice holds
    { [concurrency |-> 2, limit |-> ChunkSize + 1,
       file |-> [present |-> FALSE, lines |-> << >>],
       target |-> Err500Target] }

\* ------------------------------------------------------------------ state
VARIABLES
    cfg,                \* constructor arguments (never change)
    main,               \* position of __main__ / run()
    semaphore,          \* value of self.semaphore
    i,                  \* iterations of `for _ in range(self.limit)` done
    cursor,             \* lines of file_obj consumed since the last rewind
    tasks,              \* the list `tasks`: payload of each coroutine
    gi,                 \* index `i` of the gather loop
    started,            \* coroutines of `tasks` whose first step has run
    issued,             \* history: payloads of the attempts, in start order
    nWait,              \* attempts suspended in session.request
    nRead,              \* attempts suspended in response.read
    finished,           \* attempts whose coroutine has ended
    escaped,            \* an exception left a _request coroutine
    self,               \* the counters of the ReqBench object
    lens,               \* history: body lengths recorded so far
    durs,               \* history: durations recorded so far
    outs,               \* Record only: the outcomes to record
    left                \* Record only: indices of outs not yet recorded

hist == << lens, durs >>
sched == << started, issued, nWait, nRead, finished, escaped >>
loopv == << i, cursor, tasks, gi >>
rec == << outs, left >>
vars == << cfg, main, semaphore, loopv, sched, self, hist, rec >>

StatusCodes == {100, 200, 404, 500}

\* the counters as __init__ leaves them
NewStats ==
    [ request_sent |-> 0, success |-> 0, errors |-> 0,
      data_received |-> 0,
      min_data_received |-> None, max_data_received |-> None,
      min_time_request |-> None, max_time_request |-> None,
      statuses |-> [s \in StatusCodes |-> 0] ]

Init ==
    /\ cfg \in Configs
    /\ main = "start"
    /\ semaphore = cfg.concurrency + 1
    /\ i = 0
    /\ cursor = 0
    /\ tasks = << >>
    /\ gi = 0
    /\ started = 0
    /\ issued = << >>
    /\ nWait = 0
    /\ nRead = 0
    /\ finished = 0
    /\ escaped = FALSE
    /\ self = NewStats
    /\ lens = {}
    /\ durs = {}
    /\ outs = << >>
    /\ left = {}

\* ------------------------------------------------------------- run(): loop
Min2(a, b) == IF a < b THEN a ELSE b

\* an off-by-one in the loop bound
RangeArgPlusOne(c) == IF c.limit = None THEN None ELSE c.limit + 1

\* the argument of `range(self.limit)`
RangeArg(c) == c.limit

\* `async with self.semaphore`, then the range() of the for loop
RunStart ==
    /\ main = "start"
    /\ IF RangeArg(cfg) = None
         THEN /\ main' = "failed_limit"
              /\ UNCHANGED semaphore
         ELSE /\ main' = "loop"
              /\ semaphore' = semaphore - 1
    /\ UNCHANGED << cfg, loopv, sched, self, hist, rec >>

\* one iteration of the for loop without a data file: `data = self.data`
LoopStatic ==
    /\ main = "loop"
    /\ i < RangeArg(cfg)
    /\ ~cfg.file.present
    /\ tasks' = Append(tasks, 0)
    /\ i' = i + 1
    /\ UNCHANGED << cfg, main, semaphore, cursor, gi, sched, self, hist, rec >>

\* _get_data_from_file on a well-formed line: the payload is that line
LoopReadLine ==
    /\ main = "loop"
    /\ i < RangeArg(cfg)
    /\ cfg.file.present
    /\ cursor < Len(cfg.file.lines)
    /\ cfg.file.lines[cursor + 1]
    /\ cursor' = cursor + 1
    /\ tasks' = Append(tasks, cursor + 1)
    /\ i' = i + 1
    /\ UNCHANGED << cfg, main, semaphore, gi, sched, self, hist, rec >>

\* the rewind leaves the cursor behind the first line
LoopWrapPastFirst ==
    /\ main = "loop"
    /\ i < RangeArg(cfg)
    /\ cfg.file.present
    /\ cursor = Len(cfg.file.lines)
    /\ cursor' = Min2(1, Len(cfg.file.lines))
    /\ i' = i + 1
    /\ UNCHANGED << cfg, main, semaphore, tasks, gi, sched, self, hist, rec >>

\* next(self.file_obj) raises StopIteration: seek(0) and `continue`; the
\* iteration of the for loop is used up and nothing is appended
LoopWrap ==
    /\ main = "loop"
    /\ i < RangeArg(cfg)
    /\ cfg.file.present
    /\ cursor = Len(cfg.file.lines)
    /\ cursor' = 0
    /\ i' = i + 1
    /\ UNCHANGED << cfg, main, semaphore, tasks, gi, sched, self, hist, rec >>

\* a malformed line is skipped like a wrap-around
LoopMalformedSkips ==
    /\ main = "loop"
    /\ i < RangeArg(cfg)
    /\ cfg.file.present
    /\ cursor < Len(cfg.file.lines)
    /\ ~cfg.file.lines[cursor + 1]
    /\ cursor' = cursor + 1
    /\ i' = i + 1
    /\ UNCHANGED << cfg, main, semaphore, tasks, gi, sched, self, hist, rec >>

\* dict() raises ValueError on a malformed line: UserException leaves run()
LoopMalformed ==
    /\ main = "loop"
    /\ i < RangeArg(cfg)
    /\ cfg.file.present
    /\ cursor < Len(cfg.file.lines)
    /\ ~cfg.file.lines[cursor + 1]
    /\ cursor' = cursor + 1
    /\ main' = "failed_input"
    /\ semaphore' = semaphore + 1
    /\ UNCHANGED << cfg, i, tasks, gi, sched, self, hist, rec >>

\* the for loop is exhausted: on to the gather loop
LoopExit ==
    /\ main = "loop"
    /\ i >= RangeArg(cfg)
    /\ main' = "gather"
    /\ UNCHANGED << cfg, semaphore, loopv, sched, self, hist, rec >>

\* ----------------------------------------------------------- run(): gather

\* end of the slice tasks[i: i + 1000]
ChunkEnd == Min2(gi + ChunkSize, Len(tasks))

\* the ready queue run last-in first-out
NextToStartLast(lo, hi, n) == lo + hi - n

\* gather wraps the coroutines of the slice tasks[lo: hi] into tasks in list
\* order and the ready queue is first-in first-out: with n coroutines of
\* `tasks` started, the next first step is that of tasks[n] (0-based)
NextToStart(lo, hi, n) == n + 1

\* a coroutine of the slice being gathered has not had its first step
CanStart == main = "gather" /\ gi < Len(tasks) /\ started < ChunkEnd

\* the first step of a coroutine, up to its await of session.request
StartTask ==
    /\ CanStart
    /\ started' = started + 1
    /\ issued' = Append(issued, tasks[NextToStart(gi, ChunkEnd, started)])
    /\ nWait' = nWait + 1
    /\ UNCHANGED << cfg, main, semaphore, loopv, nRead, finished, escaped,
                    self, hist, rec >>

\* every task of the slice has resumed from its first await only after the
\* first steps of the whole slice have run (FIFO ready queue)
Resumable == main = "gather" /\ gi < Len(tasks) /\ started = ChunkEnd

\* ------------------------------------------------------------- _request()
\* Python truthiness of the min/max fields: None and 0 are both false
Falsy(x) == x = None \/ x = 0

\* `if not self.min_x or self.min_x > v: self.min_x = v`
MinUpdate(cur, v) == IF Falsy(cur) THEN v ELSE IF cur > v THEN v ELSE cur

\* `if not self.max_x or self.max_x < v: self.max_x = v`
MaxUpdate(cur, v) == IF Falsy(cur) THEN v ELSE IF cur < v THEN v ELSE cur

\* the if/elif on the status: raise RequestException, read the body, or
\* fall through to the else clause of the try
Classify(s) == IF s >= 500 THEN "raise" ELSE IF s >= 200 THEN "read" ELSE "pass"

\* the except clauses evaluate e.message before `self.errors += 1`; an
\* exception without that attribute raises AttributeError out of the clause
Absorbed(f) == f.hasMessage

\* `self.statuses[status] += 1`
OnStatus(st, s) == [st EXCEPT !.statuses[s] = @ + 1]

\* the byte counters after `resp_data = await response.read()`
OnBody(st, b) ==
    [st EXCEPT !.data_received = @ + b,
               !.min_data_received = MinUpdate(@, b),
               !.max_data_received = MaxUpdate(@, b)]

\* `self.errors += 1` of an except clause that got that far
OnError(st) == [st EXCEPT !.errors = @ + 1]

\* the except clause that catches failure f
OnExcept(st, f) == IF Absorbed(f) THEN OnError(st) ELSE st

\* the else clause: `self.success += 1`
OnSuccess(st) == [st EXCEPT !.success = @ + 1]

\* the finally clause
OnFinally(st, d) ==
    [st EXCEPT !.request_sent = @ + 1,
               !.min_time_request = MinUpdate(@, d),
               !.max_time_request = MaxUpdate(@, d)]

\* session.request raises f
RequestFails(f, d) ==
    /\ Resumable
    /\ nWait > 0
    /\ nWait' = nWait - 1
    /\ self' = OnFinally(OnExcept(self, f), d)
    /\ escaped' = (escaped \/ ~Absorbed(f))
    /\ finished' = finished + 1
    /\ durs' = durs \cup {d}
    /\ UNCHANGED << cfg, main, semaphore, loopv, started, issued, nRead, lens, rec >>

\* session.request yields a response with status s
Response(s, d) ==
    /\ Resumable
    /\ nWait > 0
    /\ nWait' = nWait - 1
    /\ CASE Classify(s) = "raise" ->
              \* RequestException is caught by its own except clause
              /\ self' = OnFinally(OnError(OnStatus(self, s)), d)
              /\ finished' = finished + 1
              /\ durs' = durs \cup {d}
              /\ UNCHANGED nRead
         [] Classify(s) = "read" ->
              /\ self' = OnStatus(self, s)
              /\ nRead' = nRead + 1
              /\ UNCHANGED << finished, durs >>
         [] OTHER ->
              /\ self' = OnFinally(OnSuccess(OnStatus(self, s)), d)
              /\ finished' = finished + 1
              /\ durs' = durs \cup {d}
              /\ UNCHANGED nRead
    /\ UNCHANGED << cfg, main, semaphore, loopv, started, issued, escaped, lens, rec >>

\* response.read returns b bytes: the byte counters, the else clause, finally
ReadDone(b, d) ==
    /\ Resumable
    /\ nRead > 0
    /\ nRead' = nRead - 1
    /\ self' = OnFinally(OnSuccess(OnBody(self, b)), d)
    /\ finished' = finished + 1
    /\ lens' = lens \cup {b}
    /\ durs' = durs \cup {d}
    /\ UNCHANGED << cfg, main, semaphore, loopv, started, issued, nWait, escaped, rec >>

\* response.read raises f
ReadFails(f, d) ==
    /\ Resumable
    /\ nRead > 0
    /\ nRead' = nRead - 1
    /\ self' = OnFinally(OnExcept(self, f), d)
    /\ escaped' = (escaped \/ ~Absorbed(f))
    /\ finished' = finished + 1
    /\ durs' = durs \cup {d}
    /\ UNCHANGED << cfg, main, semaphore, loopv, started, issued, nWait, lens, rec >>

\* ------------------------------------------------- run(): end of a gather
\* the wait returns as soon as one task of the slice is done
GatherDoneFirstCompleted ==
    /\ Resumable
    /\ finished >= 1
    /\ ~escaped
    /\ gi' = gi + ChunkSize
    /\ UNCHANGED << cfg, main, semaphore, i, cursor, tasks, sched, self,
                    hist, rec >>

\* every task of the slice is done and none raised: next slice
GatherDone ==
    /\ Resumable
    /\ finished = ChunkEnd
    /\ ~escaped
    /\ gi' = gi + ChunkSize
    /\ UNCHANGED << cfg, main, semaphore, i, cursor, tasks, sched, self,
                    hist, rec >>

\* gather(return_exceptions=False) re-raises the first exception of a task
\* in run(); run_until_complete stops the loop, the other tasks never resume
GatherRaise ==
    /\ main = "gather"
    /\ escaped
    /\ main' = "failed_attempt"
    /\ semaphore' = semaphore + 1
    /\ UNCHANGED << cfg, loopv, sched, self, hist, rec >>

\* the gather loop is exhausted: run() returns
RunReturn ==
    /\ main = "gather"
    /\ gi >= Len(tasks)
    /\ main' = "done"
    /\ semaphore' = semaphore + 1
    /\ UNCHANGED << cfg, loopv, sched, self, hist, rec >>

\* --------------------------------------------------------------- __main__
\* show_final_message evaluates avg_data_received
ShowFinal ==
    /\ main = "done"
    /\ main' = IF self.request_sent = 0 THEN "failed_report" ELSE "reported"
    /\ UNCHANGED << cfg, semaphore, loopv, sched, self, hist, rec >>

\* KeyboardInterrupt while run_until_complete is running: the interrupt
\* message, task.cancel() and loop.close(); the loop never runs again
Interrupt ==
    /\ main \in {"start", "loop", "gather"}
    /\ main' = "interrupted"
    /\ UNCHANGED << cfg, semaphore, loopv, sched, self, hist, rec >>

Progress ==
    \/ RunStart
    \/ LoopStatic
    \/ LoopReadLine
    \/ LoopWrap
    \/ LoopMalformed
    \/ LoopExit
    \/ StartTask
    \/ \E s \in cfg.target.statuses, d \in cfg.target.durs : Response(s, d)
    \/ \E f \in cfg.target.fails, d \in cfg.target.durs : RequestFails(f, d)
    \/ \E b \in cfg.target.lens, d \in cfg.target.durs : ReadDone(b, d)
    \/ \E f \in cfg.target.fails, d \in cfg.target.durs : ReadFails(f, d)
    \/ GatherDone
    \/ GatherRaise
    \/ RunReturn
    \/ ShowFinal

Next ==
    \/ Progress
    \/ Interrupt

Spec == Init /\ [][Next]_vars

\* the event loop runs every ready callback and, by assumption, every issued
\* attempt eventually resolves; the operator need not interrupt
FairSpec == Spec /\ WF_vars(Progress)

\* ------------------------------------------- recording, attempt by attempt
\* One resolved attempt: the status of the response (None when session.request
\* raised an exception that has a message), the length of the body when it
\* was read (None otherwise) and the measured duration.
Outcomes ==
    { [status |-> s, len |-> b, dur |-> d] :
        s \in {t \in AnyTarget.statuses : Classify(t) = "read"},
        b \in AnyTarget.lens, d \in Durations }
    \cup
    { [status |-> s, len |-> None, dur |-> d] :
        s \in {t \in AnyTarget.statuses : Classify(t) # "read"} \cup {None},
        d \in Durations }

\* what one attempt with outcome o does to the counters, from the response
\* to the end of the finally clause
Record(st, o) ==
    IF o.status = None
      THEN OnFinally(OnExcept(st, [cls |-> "ClientResponseError",
                                   hasMessage |-> TRUE]), o.dur)
      ELSE CASE Classify(o.status) = "raise" ->
                  OnFinally(OnError(OnStatus(st, o.status)), o.dur)
             [] Classify(o.status) = "read" ->
                  OnFinally(OnSuccess(OnBody(OnStatus(st, o.status), o.len)),
                            o.dur)
             [] OTHER ->
                  OnFinally(OnSuccess(OnStatus(st, o.status)), o.dur)

RECURSIVE RecordAll(_, _, _)
\* the counters after recording seq[k], seq[k+1], ... in that order
RecordAll(st, seq, k) ==
    IF k > Len(seq) THEN st ELSE RecordAll(Record(st, seq[k]), seq, k + 1)

OutcomeSeqs == UNION { [1..n -> Outcomes] : n \in 0..MaxOutcomes }

\* the attempts of outs complete one after the other, in any order
RecInit ==
    /\ cfg = [concurrency |-> 1, limit |-> None,
              file |-> [present |-> FALSE, lines |-> << >>],
              target |-> AnyTarget]
    /\ main = "record"
    /\ semaphore = cfg.concurrency + 1
    /\ i = 0
    /\ cursor = 0
    /\ tasks = << >>
    /\ gi = 0
    /\ started = 0
    /\ issued = << >>
    /\ nWait = 0
    /\ nRead = 0
    /\ finished = 0
    /\ escaped = FALSE
    /\ self = NewStats
    /\ lens = {}
    /\ durs = {}
    /\ outs \in OutcomeSeqs
    /\ left = DOMAIN outs

RecordOne ==
    \E k \in left :
        /\ main = "record"
        /\ self' = Record(self, outs[k])
        /\ left' = left \ {k}
        /\ finished' = finished + 1
        /\ UNCHANGED << cfg, main, semaphore, loopv, started, issued, nWait, nRead,
                        escaped, hist, outs >>

RecNext == RecordOne

RecSpec == RecInit /\ [][RecNext]_vars

\* ------------------------------------------------------------------ claims
InFlight == nWait + nRead
CountMode == cfg.limit # None
Ended == main \in {"done", "reported"}

\* C1: at every observable point success + errors = request_sent, also
\* after an attempt that ended in a transport failure or another exception
C1_CountsAddUp == self.success + self.errors = self.request_sent

\* C2: never more than `concurrency` attempts in flight, whatever the limit
C2_InFlightAtMostN == InFlight <= cfg.concurrency

\* C3: a count-mode run with limit L and concurrency N never issues more
\* than L + N - 1 attempts
C3_AdmittedAtMost == CountMode => started <= cfg.limit + cfg.concurrency - 1

\* the bound is met: concurrency 1 and all L >= 1 attempts issued
C3_Witness ==
    /\ CountMode
    /\ cfg.limit >= 1
    /\ cfg.concurrency = 1
    /\ started = cfg.limit
    /\ InFlight = cfg.limit

WellFormed == \A k \in DOMAIN cfg.file.lines : cfg.file.lines[k]
NonEmptySource == ~cfg.file.present \/ Len(cfg.file.lines) >= 1

\* C4: a count-mode run with limit L >= 1 over a static source or a
\* well-formed file eventually returns and reaches the final report (unless
\* the operator interrupts it), every attempt resolving with a response or
\* a failure
C4_Terminates ==
    (CountMode /\ cfg.limit >= 1 /\ WellFormed /\ NonEmptySource)
        => <>(main \in {"reported", "interrupted"})

\* C5: in count mode with limit L >= 1, a run that completes normally has
\* recorded exactly L attempts, with a data file as without
C5_TotalIsLimit ==
    (Ended /\ CountMode /\ cfg.limit >= 1) => self.request_sent = cfg.limit

\* C6: against a target that always answers 200 with a 10-byte body, a run
\* with concurrency 4 and limit 20 ends with total 20, success 20, errors 0,
\* 200 bytes received and min = max = 10 bytes
C6_EndToEnd ==
    (Ended /\ cfg.concurrency = 4 /\ cfg.limit = 20
           /\ cfg.target = Ok10Target)
        => /\ self.request_sent = 20
           /\ self.success = 20
           /\ self.errors = 0
           /\ self.data_received = 200
           /\ self.min_data_received = 10
           /\ self.max_data_received = 10

\* C7: the counters after recording a collection of outcomes do not depend
\* on the order in which the attempts complete
C7_OrderIndependent ==
    (main = "record" /\ left = {}) => self = RecordAll(NewStats, outs, 1)

\* C8: once an attempt is recorded, the min/max fields bracket every
\* recorded duration and every recorded body length, zero included
C8_MinMaxBracket ==
    /\ \A d \in durs :
          self.min_time_request <= d /\ d <= self.max_time_request
    /\ \A b \in lens :
          self.min_data_received <= b /\ b <= self.max_data_received

RECURSIVE CountOf(_, _)
\* responses counted in self.statuses with a status in S
CountOf(st, S) ==
    IF S = {} THEN 0
    ELSE LET s == CHOOSE x \in S : TRUE
         IN st.statuses[s] + CountOf(st, S \ {s})

\* C9: once every response received has been handled to the end, each
\* response with status >= 400 has been counted as an error and only
\* responses with status in [100, 400) as successes
C9_StatusCounting ==
    nRead = 0 =>
        /\ self.errors >= CountOf(self, {s \in StatusCodes : s >= 400})
        /\ self.success <= CountOf(self, {s \in StatusCodes : s < 400})

\* C10: a failure of one attempt never leaves _request: the exception is
\* absorbed and the run goes on
C10_FailureAbsorbed == ~escaped /\ main # "failed_attempt"

\* the line the cursor has just passed is malformed
ReadMalformed ==
    cfg.file.present /\ cursor >= 1 /\ ~cfg.file.lines[cursor]

\* C11: once a malformed line of the data file has been read the run has
\* aborted with the input error: the line is not skipped, no attempt has
\* been started or recorded and the final report is not reached
C11_MalformedAborts ==
    ReadMalformed =>
        /\ main = "failed_input"
        /\ started = 0
        /\ self.request_sent = 0

\* a malformed second line, read after a well-formed first one
C11_Witness ==
    /\ ReadMalformed
    /\ cursor = 2
    /\ Len(tasks) = 1
    /\ main = "failed_input"

Odd(k) == k % 2 = 1

\* C12: with a data file of 2 well-formed lines the k-th coroutine built and
\* the k-th attempt started carry line 1 for odd k and line 2 for even k
C12_Alternates ==
    (cfg.file.present /\ Len(cfg.file.lines) = 2 /\ WellFormed) =>
        /\ \A k \in DOMAIN tasks : tasks[k] = IF Odd(k) THEN 1 ELSE 2
        /\ \A k \in DOMAIN issued : issued[k] = IF Odd(k) THEN 1 ELSE 2

\* attempts started on both sides of two wrap-arounds
C12_Witness ==
    /\ cfg.file.present
    /\ Len(cfg.file.lines) = 2
    /\ WellFormed
    /\ Len(issued) >= 5

\* C13: producing the final report never fails, also when no attempt was
\* recorded (the average is then left out instead of dividing by zero)
C13_ReportNeverFails == main # "failed_report"

\* C14: after an operator interrupt the final statistics report is
\* eventually produced
C14_ReportAfterInterrupt == (main = "interrupted") ~> (main = "reported")

\* C15: a run without a limit never stops on its own: it is admitting
\* attempts until the operator interrupts it
C15_RunsUntilCancelled ==
    ~CountMode => main \in {"start", "loop", "gather", "interrupted"}

C17_NoBarrier ==
    (main = "gather" /\ ~escaped /\ finished >= 1 /\ InFlight >= 1
        /\ started < Len(tasks)) => CanStart

\* C18: an attempt is started at most once, and when run() has returned no
\* attempt is in flight and every attempt built and started has been
\* recorded exactly once
C18_AllRecordedOnce ==
    /\ started <= Len(tasks)
    /\ Ended =>
          /\ InFlight = 0
          /\ started = Len(tasks)
          /\ finished = started
          /\ self.request_sent = started

\* the report of a run of several attempts, one of which failed
C18_Witness ==
    /\ main = "reported"
    /\ started >= 2
    /\ self.errors >= 1
    /\ self.success >= 1

\* C19: as long as no response with a status in [100, 400) was received,
\* the byte counters are as __init__ left them
C19_ErrorsLeaveBytes ==
    CountOf(self, {s \in StatusCodes : s < 400}) = 0 =>
        /\ self.data_received = 0
        /\ self.min_data_received = None
        /\ self.max_data_received = None

\* C20: the file cursor moves only inside run()'s for loop, while no attempt
\* has been started, and the k-th attempt started carries the k-th record
\* pulled
C20_CursorSerialized ==
    /\ [](main = "loop" => started = 0 /\ InFlight = 0)
    /\ [](issued = SubSeq(tasks, 1, Len(issued)))
    /\ [][cursor' # cursor => main = "loop" /\ InFlight = 0]_vars

\* two attempts carrying different lines are in flight
C20_Witness ==
    /\ cfg.file.present
    /\ Len(issued) >= 2
    /\ issued[1] # issued[2]
    /\ InFlight >= 2
====
